---- MODULE Spec2Model ----
(***************************************************************************)
(* Pusher.ConnectionManager (src/src/connection/connection_manager.js) as  *)
(* a state machine.  Every handler (public call, strategy callback, timer  *)
(* callback, network event, transport event) runs to completion as one     *)
(* action.  The collaborators the manager only calls (Pusher.Timer, the    *)
(* strategy's runner, the Connection, Pusher.Network) are modelled by the  *)
(* interface the manager relies on.                                        *)
(*                                                                         *)
(* Objects are kept up to what the manager can tell apart: the object a    *)
(* field refers to is kept by its status; objects no field refers to any   *)
(* more, but which can still call the manager back (pending runners, armed *)
(* timers, Connections with the manager's callbacks bound), are counted.   *)
(***************************************************************************)
EXTENDS Integers, Sequences, FiniteSets, TLC

\* ---------------------------------------------------------------- bounds
\* pending runners this.runner no longer refers to
MaxInFlight == 1
\* armed timers of one kind whose field was overwritten
MaxOrphanTimers == 1
\* Connections with callbacks bound that this.connection no longer refers to
MaxLeaked == 1
\* abort() calls on one runner are counted up to MaxAborts (saturating)
MaxAborts == 2
\* close() calls on one Connection are counted up to MaxCloses (saturating)
MaxCloses == 2

\* ------------------------------------------------------------- constants
ManagerStates ==
  {"initialized", "connecting", "connected", "disconnected", "unavailable", "failed"}
\* handshake.action values; "unknown" stands for any tag with no table entry
KnownActions == {"connected", "ssl_only", "refused", "backoff", "retry"}
HandshakeActions == KnownActions \cup {"unknown"}
TimerKinds == {"retry", "unavailable", "activity", "pong"}

VARIABLES
  state,            \* this.state
  connection,       \* this.connection: "null", or the transport's status,
                    \*   "open" | "closing" (close() was called)
  supportsPing,     \* this.connection.supportsPing()
  closeCalls,       \* close() calls this.connection has received
  leaked,           \* Connections with the manager's callbacks bound that
                    \*   are not this.connection: [open, closing] counts
  runner,           \* this.runner: "null" | "pending" | "delivered" | "aborted"
  abortCalls,       \* abort() calls this.runner has received
  inflight,         \* pending runners that are not this.runner
  encrypted,        \* this.encrypted
  supported,        \* this.strategy.isSupported()
  online,           \* Pusher.Network.isOnline()
  retryTimer,       \* this.retryTimer: [status: "idle" | "armed", delay]
  unavailableTimer, \* this.unavailableTimer: "idle" | "armed"
  activityTimer,    \* this.activityTimer: "idle" | "armed_activity" | "armed_pong"
  orphans,          \* kind -> armed timers no field refers to any more
  emitted,          \* events emitted by the last handler, in order
  sent,             \* events sent on this.connection by the last handler
  exception,        \* "none", or the exception the last handler threw
  returned,         \* what the last handler returned to its caller:
                    \*   "undefined" | "true" | "false"
  lastOp            \* the last handler that ran

vars == <<state, connection, supportsPing, closeCalls, leaked, runner,
          abortCalls, inflight, encrypted, supported, online, retryTimer,
          unavailableTimer, activityTimer, orphans, emitted, sent,
          exception, returned, lastOp>>

\* The whole state as a record, so that handlers compose as functions;
\* a handler starts with nothing emitted, sent, thrown or returned.
M == [state |-> state, connection |-> connection,
      supportsPing |-> supportsPing, closeCalls |-> closeCalls,
      leaked |-> leaked, runner |-> runner, abortCalls |-> abortCalls,
      inflight |-> inflight, encrypted |-> encrypted,
      supported |-> supported, online |-> online,
      retryTimer |-> retryTimer, unavailableTimer |-> unavailableTimer,
      activityTimer |-> activityTimer, orphans |-> orphans,
      emitted |-> <<>>, sent |-> <<>>, exception |-> "none",
      returned |-> "undefined"]

\* the counted objects stay within the bounds
Bounded(m) ==
  /\ m.inflight <= MaxInFlight
  /\ \A k \in TimerKinds : m.orphans[k] <= MaxOrphanTimers
  /\ m.leaked.open + m.leaked.closing <= MaxLeaked

Commit(m, op) ==
  /\ Bounded(m)
  /\ state' = m.state
  /\ connection' = m.connection
  /\ supportsPing' = m.supportsPing
  /\ closeCalls' = m.closeCalls
  /\ leaked' = m.leaked
  /\ runner' = m.runner
  /\ abortCalls' = m.abortCalls
  /\ inflight' = m.inflight
  /\ encrypted' = m.encrypted
  /\ supported' = m.supported
  /\ online' = m.online
  /\ retryTimer' = m.retryTimer
  /\ unavailableTimer' = m.unavailableTimer
  /\ activityTimer' = m.activityTimer
  /\ orphans' = m.orphans
  /\ emitted' = m.emitted
  /\ sent' = m.sent
  /\ exception' = m.exception
  /\ returned' = m.returned
  /\ lastOp' = op

\* ------------------------------------------------------------ Pusher.Timer
TimerArmed(status) == status \in {"armed", "armed_activity", "armed_pong"}

\* kind of the armed timer held in this.activityTimer
ActivityKind(status) == IF status = "armed_pong" THEN "pong" ELSE "activity"

\* a field is overwritten by a new Timer: a still armed old one stays armed
Orphan(m, kind, status) ==
  IF TimerArmed(status)
    THEN [m EXCEPT !.orphans[kind] = @ + 1]
    ELSE m

\* ------------------------------------------------------- EventsDispatcher
emit(m, event) == [m EXCEPT !.emitted = Append(@, event)]

throw(m, error) == [m EXCEPT !.exception = error]

\* ---------------------------------------------------------------- manager
shouldRetry(m) == m.state = "connecting" \/ m.state = "connected"

\* updateState without the comparison of line 317
updateState_alwaysEmits(m, newState) ==
  emit(emit([m EXCEPT !.state = newState],
            <<"state_change", m.state, newState>>),
       <<newState>>)

updateState(m, newState) ==
  LET previousState == m.state
      m1 == [m EXCEPT !.state = newState]
  IN IF previousState # newState
       THEN emit(emit(m1, <<"state_change", previousState, newState>>),
                 <<newState>>)
       ELSE m1

\* this.runner.abort(): a pending attempt is aborted; the call is counted
abort(m) ==
  [m EXCEPT !.runner = IF @ = "pending" THEN "aborted" ELSE @,
            !.abortCalls = IF @ < MaxAborts THEN @ + 1 ELSE @]

\* this.connection.close(); the call is counted
close(m) ==
  [m EXCEPT !.connection = "closing",
            !.closeCalls = IF @ < MaxCloses THEN @ + 1 ELSE @]

send_event(m, name) ==
  IF m.connection # "null"
    THEN [m EXCEPT !.sent = Append(@, name)]
    ELSE m

\* return of a Boolean
return(m, value) == [m EXCEPT !.returned = IF value THEN "true" ELSE "false"]

\* send_event() that answers true with no Connection held
send_eventCall_trueWithoutConnection(m, name, result) ==
  IF m.connection # "null"
    THEN return(send_event(m, name), result)
    ELSE return(m, TRUE)

\* send(data) and send_event(name, data, channel) as called by the user:
\* the held Connection transmits and its result is returned
sendCall(m, data, result) ==
  IF m.connection # "null"
    THEN return([m EXCEPT !.sent = Append(@, data)], result)
    ELSE return(m, FALSE)

send_eventCall(m, name, result) ==
  IF m.connection # "null"
    THEN return(send_event(m, name), result)
    ELSE return(m, FALSE)

clearRetryTimer(m) ==
  [m EXCEPT !.retryTimer = [status |-> "idle", delay |-> 0]]

\* clearUnavailableTimer that leaves the timer running
clearUnavailableTimer_keepsTimer(m) == m

clearUnavailableTimer(m) ==
  [m EXCEPT !.unavailableTimer = "idle"]

stopActivityCheck(m) ==
  [m EXCEPT !.activityTimer = "idle"]

retryIn(m, delay) ==
  [Orphan(m, "retry", m.retryTimer.status)
     EXCEPT !.retryTimer = [status |-> "armed", delay |-> delay]]

setUnavailableTimer(m) ==
  [Orphan(m, "unavailable", m.unavailableTimer)
     EXCEPT !.unavailableTimer = "armed"]

resetActivityCheck(m) ==
  LET m1 == stopActivityCheck(m)
  IN IF m1.connection = "null"
       THEN throw(m1, "TypeError")
       ELSE IF ~m1.supportsPing
              THEN [Orphan(m1, ActivityKind(m1.activityTimer), m1.activityTimer)
                      EXCEPT !.activityTimer = "armed_activity"]
              ELSE m1

\* the callbacks are unbound and the reference dropped
abandonConnection(m) ==
  IF m.connection = "null"
    THEN m
    ELSE [m EXCEPT !.connection = "null", !.supportsPing = FALSE,
                   !.closeCalls = 0]

\* a Connection still held is overwritten with its callbacks left bound
setConnection(m, c) ==
  LET m1 == IF m.connection = "null"
              THEN m
              ELSE [m EXCEPT !.leaked[m.connection] = @ + 1]
  IN resetActivityCheck([m1 EXCEPT !.connection = "open",
                                   !.supportsPing = c.supportsPing,
                                   !.closeCalls = 0])

\* disconnect() that closes the Connection but keeps the reference
disconnect_keepsConnection(m) ==
  LET m1 == IF m.runner # "null" THEN abort(m) ELSE m
      m2 == stopActivityCheck(clearUnavailableTimer(clearRetryTimer(m1)))
      m3 == updateState(m2, "disconnected")
  IN IF m3.connection # "null" THEN close(m3) ELSE m3

disconnect(m) ==
  LET m1 == IF m.runner # "null" THEN abort(m) ELSE m
      m2 == stopActivityCheck(clearUnavailableTimer(clearRetryTimer(m1)))
      m3 == updateState(m2, "disconnected")
  IN IF m3.connection # "null"
       THEN abandonConnection(close(m3))
       ELSE m3

\* this.runner = strategy.connect(0, callback): a new pending runner; a
\* pending one this.runner referred to stays pending
strategyConnect(m) ==
  [m EXCEPT !.inflight = IF m.runner = "pending" THEN @ + 1 ELSE @,
            !.runner = "pending",
            !.abortCalls = 0]

\* connect() without the check of lines 88-91
connect_noNetworkCheck(m) ==
  IF m.connection # "null" THEN m
  ELSE IF m.state = "connecting" THEN m
  ELSE IF ~m.supported THEN updateState(m, "failed")
  ELSE setUnavailableTimer(strategyConnect(updateState(m, "connecting")))

\* connect() without the check of lines 80-82
connect_noConnectingCheck(m) ==
  IF m.connection # "null" THEN m
  ELSE IF ~m.supported THEN updateState(m, "failed")
  ELSE IF ~m.online THEN updateState(m, "unavailable")
  ELSE setUnavailableTimer(strategyConnect(updateState(m, "connecting")))

connect(m) ==
  IF m.connection # "null" THEN m
  ELSE IF m.state = "connecting" THEN m
  ELSE IF ~m.supported THEN updateState(m, "failed")
  ELSE IF ~m.online THEN updateState(m, "unavailable")
  ELSE setUnavailableTimer(strategyConnect(updateState(m, "connecting")))

\* ------------------------------------------------------------------- Init
Init ==
  /\ state = "initialized"
  /\ connection = "null"
  /\ supportsPing = FALSE
  /\ closeCalls = 0
  /\ leaked = [open |-> 0, closing |-> 0]
  /\ runner = "null"
  /\ abortCalls = 0
  /\ inflight = 0
  /\ encrypted \in BOOLEAN
  /\ supported \in BOOLEAN
  /\ online \in BOOLEAN
  /\ retryTimer = [status |-> "idle", delay |-> 0]
  /\ unavailableTimer = "idle"
  /\ activityTimer = "idle"
  /\ orphans = [k \in TimerKinds |-> 0]
  /\ emitted = <<>>
  /\ sent = <<>>
  /\ exception = "none"
  /\ returned = "undefined"
  /\ lastOp = "init"

\* ---------------------------------------------------------------- actions
\* manager.connect() called by the user
Connect ==
  Commit(connect(M), "connect")

\* manager.disconnect() called by the user
Disconnect ==
  Commit(disconnect(M), "disconnect")

\* manager.send(data) called by the user; the held Connection answers
\* true or false
Send ==
  \E result \in IF connection # "null" THEN BOOLEAN ELSE {FALSE} :
    Commit(sendCall(M, "data", result), "send")

\* manager.send_event(name, data, channel) called by the user
SendEvent ==
  \E result \in IF connection # "null" THEN BOOLEAN ELSE {FALSE} :
    Commit(send_eventCall(M, "client-event", result), "send_event")

\* ---- strategy callback (connect, lines 100-108)
\* handshakeCallbacks[handshake.action](handshake)
handshakeCallbacks(m, handshake) ==
  CASE handshake.action = "connected" ->
         updateState(
           setConnection(clearUnavailableTimer(m), handshake.connection),
           "connected")
    [] handshake.action = "ssl_only" ->
         retryIn([m EXCEPT !.encrypted = TRUE,
                           !.supported = handshake.supported], 0)
    [] handshake.action = "refused" -> disconnect(m)
    [] handshake.action = "backoff" -> retryIn(m, 1000)
    [] handshake.action = "retry" -> retryIn(m, 0)
    [] OTHER -> throw(m, "TypeError")

callback(m, error, handshake) ==
  IF error
    THEN strategyConnect(m)
    ELSE handshakeCallbacks(abort(m), handshake)

\* a pending runner, this.runner or another one, delivers its callback
Pending(current) == IF current THEN runner = "pending" ELSE inflight > 0

Delivered(m, current) ==
  IF current
    THEN [m EXCEPT !.runner = "delivered"]
    ELSE [m EXCEPT !.inflight = @ - 1]

StrategyError ==
  \E current \in BOOLEAN :
    /\ Pending(current)
    /\ Commit(callback(Delivered(M, current), TRUE, [action |-> "none"]),
              "strategy_error")

\* a connected handshake carries a new, open Connection; after ssl_only the
\* strategy is replaced, and the new one may or may not be supported
StrategyHandshake ==
  \E current \in BOOLEAN, action \in HandshakeActions :
    \E ping \in IF action = "connected" THEN BOOLEAN ELSE {FALSE},
       sup \in IF action = "ssl_only" THEN BOOLEAN ELSE {supported} :
      /\ Pending(current)
      /\ Commit(callback(Delivered(M, current), FALSE,
                         [action |-> action,
                          connection |-> [supportsPing |-> ping],
                          supported |-> sup]),
                action)

\* ---- timers
\* the timer held in the field fires, or one whose handle was overwritten
Outstanding(kind, orphaned) ==
  IF orphaned
    THEN orphans[kind] > 0
    ELSE CASE kind = "retry" -> retryTimer.status = "armed"
           [] kind = "unavailable" -> unavailableTimer = "armed"
           [] kind = "activity" -> activityTimer = "armed_activity"
           [] kind = "pong" -> activityTimer = "armed_pong"

Fired(m, kind, orphaned) ==
  IF orphaned
    THEN [m EXCEPT !.orphans[kind] = @ - 1]
    ELSE CASE kind = "retry" ->
                [m EXCEPT !.retryTimer = [status |-> "idle", delay |-> 0]]
           [] kind = "unavailable" -> [m EXCEPT !.unavailableTimer = "idle"]
           [] OTHER -> [m EXCEPT !.activityTimer = "idle"]

\* retryIn's callback (lines 169-172)
retryCallback(m) == connect(disconnect(m))

\* setUnavailableTimer's callback (lines 187-189)
unavailableCallback(m) == updateState(m, "unavailable")

\* the outer callback without the pong timer of lines 211-216
activityCallback_noPongTimer(m) == send_event(m, "pusher:ping")

\* resetActivityCheck's outer callback (lines 208-217)
activityCallback(m) ==
  LET m1 == send_event(m, "pusher:ping")
  IN [Orphan(m1, ActivityKind(m1.activityTimer), m1.activityTimer)
        EXCEPT !.activityTimer = "armed_pong"]

\* resetActivityCheck's inner callback (lines 213-215)
pongCallback(m) ==
  IF m.connection = "null"
    THEN throw(m, "TypeError")
    ELSE close(m)

RetryTimerFires ==
  \E orphaned \in BOOLEAN :
    /\ Outstanding("retry", orphaned)
    /\ Commit(retryCallback(Fired(M, "retry", orphaned)), "retry_timer")

UnavailableTimerFires ==
  \E orphaned \in BOOLEAN :
    /\ Outstanding("unavailable", orphaned)
    /\ Commit(unavailableCallback(Fired(M, "unavailable", orphaned)),
              "unavailable_timer")

ActivityTimerFires ==
  \E orphaned \in BOOLEAN :
    /\ Outstanding("activity", orphaned)
    /\ Commit(activityCallback(Fired(M, "activity", orphaned)),
              "activity_timer")

PongTimerFires ==
  \E orphaned \in BOOLEAN :
    /\ Outstanding("pong", orphaned)
    /\ Commit(pongCallback(Fired(M, "pong", orphaned)), "pong_timer")

\* ---- Pusher.Network events (lines 43-53)
\* the online handler without the check of line 44
onlineHandler_anyState(m) == connect(m)

onlineHandler(m) == IF m.state = "unavailable" THEN connect(m) ELSE m

offlineHandler(m) ==
  IF shouldRetry(m)
    THEN updateState(disconnect(m), "unavailable")
    ELSE m

NetworkOnline ==
  /\ ~online
  /\ Commit(onlineHandler([M EXCEPT !.online = TRUE]), "online")

NetworkOffline ==
  /\ online
  /\ Commit(offlineHandler([M EXCEPT !.online = FALSE]), "offline")

\* ---- connectionCallbacks (lines 233-253), run for a bound Connection
messageCallback(m) ==
  LET m1 == resetActivityCheck(m)
  IN IF m1.exception # "none" THEN m1 ELSE emit(m1, <<"message">>)

pingCallback(m) == send_event(m, "pusher:pong")

ping_requestCallback(m) == send_event(m, "pusher:ping")

errorCallback(m) == emit(m, <<"error">>)

closedCallback(m) ==
  LET m1 == abandonConnection(m)
  IN IF shouldRetry(m1) THEN retryIn(m1, 1000) ELSE m1

\* some open Connection has the manager's callbacks bound
BoundOpen == connection = "open" \/ leaked.open > 0

ConnMessage ==
  /\ BoundOpen
  /\ Commit(messageCallback(M), "message")

ConnPing ==
  /\ BoundOpen
  /\ Commit(pingCallback(M), "ping")

ConnPingRequest ==
  /\ BoundOpen
  /\ Commit(ping_requestCallback(M), "ping_request")

ConnError ==
  /\ BoundOpen
  /\ Commit(errorCallback(M), "error")

\* a transport with the callbacks bound closes, on its own or after
\* close(): this.connection, or one this.connection no longer refers to
ConnClosed ==
  \E source \in {"held", "open", "closing"} :
    /\ IF source = "held" THEN connection # "null" ELSE leaked[source] > 0
    /\ LET m1 == IF source = "held"
                   THEN M
                   ELSE [M EXCEPT !.leaked[source] = @ - 1]
       IN Commit(closedCallback(m1), "closed")

Next ==
  \/ Connect
  \/ Disconnect
  \/ Send
  \/ SendEvent
  \/ StrategyError
  \/ StrategyHandshake
  \/ RetryTimerFires
  \/ UnavailableTimerFires
  \/ ActivityTimerFires
  \/ PongTimerFires
  \/ NetworkOnline
  \/ NetworkOffline
  \/ ConnMessage
  \/ ConnPing
  \/ ConnPingRequest
  \/ ConnError
  \/ ConnClosed

Spec == Init /\ [][Next]_vars
\* ----------------------------------------------------------------- claims
managerVars == <<state, connection, supportsPing, closeCalls, leaked, runner,
                 abortCalls, inflight, encrypted, supported, online,
                 retryTimer, unavailableTimer, activityTimer, orphans>>

\* connection attempts that have neither delivered nor been aborted
InFlight == (IF runner = "pending" THEN 1 ELSE 0) + inflight

\* armed timers of a kind, whether or not a field still refers to them
OutstandingTimers(kind) ==
  orphans[kind] + (IF Outstanding(kind, FALSE) THEN 1 ELSE 0)

\* C1: in every reachable state, a held Connection implies state connected.
C1_HeldOnlyWhenConnected == connection # "null" => state = "connected"

\* C1 witness: a handshake has handed the manager a Connection.
C1_Witness ==
  lastOp = "connected" /\ connection = "open" /\ state = "connected"

\* C2: in every reachable state, state connected implies a held Connection.
C2_ConnectedHoldsConnection == state = "connected" => connection # "null"

\* C3: at most one connection attempt is in flight at any instant.
C3_OneAttemptInFlight == InFlight <= 1

\* C4: at most one retry timer, one unavailable timer and one activity/pong
\* timer is outstanding in every reachable state.
C4_OneTimerPerKind ==
  /\ OutstandingTimers("retry") <= 1
  /\ OutstandingTimers("unavailable") <= 1
  /\ OutstandingTimers("activity") + OutstandingTimers("pong") <= 1

\* C5: right after disconnect() the state is disconnected, no Connection is
\* held, no attempt is in flight and no timer of any kind is outstanding.
C5_DisconnectTearsDown ==
  lastOp = "disconnect" =>
    /\ state = "disconnected"
    /\ connection = "null"
    /\ InFlight = 0
    /\ \A k \in TimerKinds : OutstandingTimers(k) = 0

\* C6: connect() while connecting or while a Connection is held changes
\* nothing: no field, attempt or timer changes and nothing is emitted.
C6_ConnectIsNoOp ==
  [][(lastOp' = "connect" /\ (state = "connecting" \/ connection # "null"))
       => /\ UNCHANGED managerVars
          /\ emitted' = <<>>
          /\ sent' = <<>>
          /\ exception' = "none"]_vars

\* C6 witness: connect() has run while connecting and emitted nothing.
C6_Witness ==
  /\ lastOp = "connect"
  /\ state = "connecting"
  /\ runner = "pending"
  /\ emitted = <<>>

\* C7: after a refused handshake the state is disconnected and no retry
\* timer is armed, and the next handler, unless it is connect(), leaves the
\* state disconnected.
C7_RefusedIsFinal ==
  [][/\ lastOp' = "refused" =>
          state' = "disconnected" /\ OutstandingTimers("retry")' = 0
     /\ (lastOp = "refused" /\ lastOp' # "connect") =>
          state' = "disconnected"]_vars

\* C8: a handshake with an action outside the table is handled without an
\* exception and leaves the manager in one of its six states.
C8_UnknownActionHandled ==
  lastOp = "unknown" => exception = "none" /\ state \in ManagerStates

\* C9: with a Connection held, the activity timer expires only without
\* native ping support, and its expiry sends pusher:ping and arms the pong
\* timer; the pong timer's expiry calls close() once and
\* arms nothing; a message cancels the outstanding timer and, without native
\* ping support, arms a new activity timer.
C9_Heartbeat ==
  [][/\ (lastOp' = "activity_timer" /\ connection # "null") =>
          /\ ~supportsPing
          /\ sent' = <<"pusher:ping">>
          /\ activityTimer' = "armed_pong"
          /\ OutstandingTimers("activity")' = 0
          /\ OutstandingTimers("pong")' = 1
     /\ (lastOp' = "pong_timer" /\ connection # "null") =>
          /\ connection' = "closing"
          /\ closeCalls' = closeCalls + 1 \/ closeCalls = MaxCloses
          /\ activityTimer' = "idle"
          /\ exception' = "none"
     /\ (lastOp' = "message" /\ connection # "null") =>
          /\ activityTimer' =
               IF supportsPing THEN "idle" ELSE "armed_activity"
          /\ OutstandingTimers("activity")' + OutstandingTimers("pong")'
               = IF supportsPing THEN 0 ELSE 1
          /\ emitted' = << <<"message">> >>]_vars

\* C9 witness: the pong timer has expired on a held Connection, which has
\* been closed once.
C9_Witness ==
  /\ lastOp = "pong_timer"
  /\ connection = "closing"
  /\ closeCalls = 1
  /\ activityTimer = "idle"

\* C10: no attempt handle receives more than one abort() call.
C10_AbortedAtMostOnce == abortCalls <= 1

\* C11: the offline event in state connected emits exactly state_change
\* connected->disconnected, disconnected, state_change
\* disconnected->unavailable, unavailable, and leaves no Connection held and
\* no retry, unavailable, activity or pong timer outstanding.
C11_OfflineWhileConnected ==
  [][(lastOp' = "offline" /\ state = "connected") =>
       /\ emitted' = << <<"state_change", "connected", "disconnected">>,
                        <<"disconnected">>,
                        <<"state_change", "disconnected", "unavailable">>,
                        <<"unavailable">> >>
       /\ state' = "unavailable"
       /\ connection' = "null"
       /\ \A k \in TimerKinds : OutstandingTimers(k)' = 0]_vars

\* what the online event, which only concerns Pusher.Network, leaves alone
\* when the manager does not react
untouchedByNetwork ==
  <<state, connection, supportsPing, closeCalls, leaked, runner, abortCalls,
    inflight, encrypted, supported, retryTimer, unavailableTimer,
    activityTimer, orphans>>

\* C12 as stated: the online event in state unavailable always leads to
\* connecting, with an attempt started and the unavailable timer armed; in
\* any other state it changes nothing.
C12_OnlineAlwaysConnects ==
  [][lastOp' = "online" =>
       IF state = "unavailable"
         THEN /\ state' = "connecting"
              /\ runner' = "pending"
              /\ InFlight' = InFlight + 1
              /\ unavailableTimer' = "armed"
         ELSE UNCHANGED untouchedByNetwork /\ emitted' = <<>>]_vars

\* C12 amended: the online event in state unavailable leads to connecting
\* (one attempt started, the unavailable timer armed) when the strategy is
\* supported and to failed (no attempt, no timer) when it is not; in any
\* other state it changes nothing.
C12_OnlineReconnects ==
  [][lastOp' = "online" =>
       IF state = "unavailable"
         THEN IF supported
                THEN /\ state' = "connecting"
                     /\ runner' = "pending"
                     /\ InFlight' = InFlight + 1
                     /\ unavailableTimer' = "armed"
                     /\ OutstandingTimers("unavailable")' = 1
                ELSE /\ state' = "failed"
                     /\ InFlight' = InFlight
                     /\ unavailableTimer' = unavailableTimer
         ELSE UNCHANGED untouchedByNetwork /\ emitted' = <<>>]_vars

\* C12 witness: the online event has taken the manager from unavailable to
\* connecting.
C12_Witness ==
  /\ lastOp = "online"
  /\ state = "connecting"
  /\ emitted = << <<"state_change", "unavailable", "connecting">>,
                  <<"connecting">> >>
  /\ runner = "pending"
  /\ unavailableTimer = "armed"

\* C13: a backoff handshake received while connecting arms the retry timer
\* with the 1000 ms delay, leaves exactly one retry timer outstanding, and
\* leaves no attempt in flight for the retry's next attempt to overlap.
C13_BackoffSchedulesOneRetry ==
  [][(lastOp' = "backoff" /\ state = "connecting") =>
       /\ retryTimer' = [status |-> "armed", delay |-> 1000]
       /\ OutstandingTimers("retry")' = 1
       /\ InFlight' = 0]_vars

IsStateChange(event) == Len(event) = 3 /\ event[1] = "state_change"

IsStateNamed(event) == Len(event) = 1 /\ event[1] \in ManagerStates

\* C14: among the events of a handler, every state_change has previous #
\* current and is immediately followed by the event named after current,
\* every state-named event immediately follows its state_change, and the
\* state_change events lead from the state before the handler to the state
\* after it (none is emitted when no updateState call changed the state).
C14_StateChangeEvents ==
  [][/\ \A i \in 1..Len(emitted') :
          IsStateChange(emitted'[i]) =>
            /\ emitted'[i][2] # emitted'[i][3]
            /\ i < Len(emitted')
            /\ emitted'[i + 1] = <<emitted'[i][3]>>
     /\ \A i \in 1..Len(emitted') :
          IsStateNamed(emitted'[i]) =>
            /\ i > 1
            /\ IsStateChange(emitted'[i - 1])
            /\ emitted'[i - 1][3] = emitted'[i][1]
     /\ LET changes == SelectSeq(emitted', IsStateChange)
        IN IF changes = <<>>
             THEN state' = state
             ELSE /\ changes[1][2] = state
                  /\ changes[Len(changes)][3] = state'
                  /\ \A i \in 1..(Len(changes) - 1) :
                       changes[i][3] = changes[i + 1][2]]_vars

\* C14 witness: a retry has called updateState twice, each call changing
\* the state and emitting its pair of events.
C14_Witness ==
  /\ lastOp = "retry_timer"
  /\ emitted = << <<"state_change", "connecting", "disconnected">>,
                  <<"disconnected">>,
                  <<"state_change", "disconnected", "connecting">>,
                  <<"connecting">> >>

\* C15: connect() with no Connection held and the state not connecting
\* goes to failed when the strategy is unsupported, else to unavailable
\* when the network is offline, in both cases starting no attempt and
\* leaving no unavailable timer armed; otherwise it goes to connecting with
\* one attempt started and the unavailable timer armed.
C15_ConnectOutcomes ==
  [][(lastOp' = "connect" /\ connection = "null" /\ state # "connecting") =>
       IF ~supported \/ ~online
         THEN /\ state' = IF ~supported THEN "failed" ELSE "unavailable"
              /\ runner' = runner
              /\ InFlight' = InFlight
              /\ OutstandingTimers("unavailable")' = 0
         ELSE /\ state' = "connecting"
              /\ runner' = "pending"
              /\ InFlight' = InFlight + 1
              /\ OutstandingTimers("unavailable")' = 1]_vars

\* C15 witness: connect() has met a supported strategy and an offline
\* network, and moved to unavailable.
C15_Witness ==
  /\ lastOp = "connect"
  /\ supported /\ ~online
  /\ emitted = << <<"state_change", "initialized", "unavailable">>,
                  <<"unavailable">> >>
  /\ runner = "null"

\* C16: send() and send_event() change nothing in the manager; with a
\* Connection held the call is transmitted on it, once, and the
\* Connection's Boolean result is returned; with none held nothing is
\* transmitted and false is returned.
C16_SendDelegates ==
  [][(lastOp' \in {"send", "send_event"}) =>
       /\ UNCHANGED managerVars
       /\ emitted' = <<>>
       /\ exception' = "none"
       /\ IF connection # "null"
            THEN /\ sent' = IF lastOp' = "send"
                              THEN <<"data">>
                              ELSE <<"client-event">>
                 /\ returned' \in {"true", "false"}
            ELSE /\ sent' = <<>>
                 /\ returned' = "false"]_vars

\* C16 witness: after a connected handshake, send_event() was transmitted
\* on the held Connection, which answered true.
C16_Witness ==
  /\ lastOp = "send_event"
  /\ state = "connected"
  /\ connection = "open"
  /\ sent = <<"client-event">>
  /\ returned = "true"

\* the events of a retry that fires in state `from` and ends in state `to`
RetryEvents(from, to) ==
  << <<"state_change", from, "disconnected">>, <<"disconnected">>,
     <<"state_change", "disconnected", to>>, <<to>> >>

\* what closed and disconnect() do to the Connection and the retry timer:
\* closed in state connecting or connected releases the Connection and arms
\* the retry timer with delay 1000, leaving the state; closed in another
\* state arms nothing; disconnect() leaves no retry timer in the field.
ClosedAndDisconnectSteps ==
  /\ (lastOp' = "closed" /\ state \in {"connecting", "connected"}) =>
       /\ connection' = "null"
       /\ retryTimer' = [status |-> "armed", delay |-> 1000]
       /\ state' = state
  /\ (lastOp' = "closed" /\ state \notin {"connecting", "connected"}) =>
       /\ connection' = "null"
       /\ retryTimer' = retryTimer
       /\ orphans' = orphans
  /\ lastOp' = "disconnect" => retryTimer'.status = "idle"

\* C17: closed in state connecting or connected releases the
\* Connection and arms a retry with delay 1000; when that retry fires the
\* state passes through disconnected and reaches connecting, or unavailable
\* if the network is offline; disconnect() schedules no retry.
C17_RetryReachesConnecting ==
  [][/\ ClosedAndDisconnectSteps
     /\ (lastOp = "closed" /\ retryTimer.status = "armed"
           /\ lastOp' = "retry_timer") =>
          emitted' = RetryEvents(state, IF online THEN "connecting"
                                                  ELSE "unavailable")]_vars

C19_HeartbeatOnlyWhileHeld ==
  /\ OutstandingTimers("activity") + OutstandingTimers("pong") > 0 =>
       connection # "null"
  /\ lastOp = "pong_timer" => exception = "none"

\* C20: an unavailable timer is outstanding exactly when the state is
\* connecting, and its expiry only ever takes the manager from connecting
\* to unavailable.
C20_UnavailableTimerWhileConnecting ==
  [][/\ OutstandingTimers("unavailable")' > 0 <=> state' = "connecting"
     /\ lastOp' = "unavailable_timer" =>
          /\ state = "connecting"
          /\ state' = "unavailable"
          /\ emitted' = << <<"state_change", "connecting", "unavailable">>,
                           <<"unavailable">> >>]_vars

\* C20 witness: the unavailable timer armed by connect() has fired and
\* moved the manager to unavailable, leaving no unavailable timer behind.
C20_Witness ==
  /\ lastOp = "unavailable_timer"
  /\ state = "unavailable"
  /\ OutstandingTimers("unavailable") = 0
  /\ runner = "pending"
====
